---- MODULE Spec2Model ----
(***************************************************************************)
(* A model of backend/services/fritzing_service.py: the FritzingService     *)
(* catalog loader (load_components and what it calls) and the connector      *)
(* position pipeline (get_component_svg, parse_connector_positions,          *)
(* get_svg_dimensions, update_component_with_connector_positions).           *)
(*                                                                           *)
(* Conventions.                                                              *)
(*  - A Python str is the sequence of its code points: 'M 7' is              *)
(*    <<77, 32, 55>> and '' is <<>>.  Str gives the str of a literal of      *)
(*    ASCII characters; s[i:j] is SubSeq and + is \o.  Character classes     *)
(*    (whitespace, decimal digits, lower case) are those of Unicode 14, the  *)
(*    tables of CPython 3.11.                                                *)
(*  - Python dicts (ElementTree attrib, connector dicts) are records; a key  *)
(*    is present iff it is in the DOMAIN of the record.                      *)
(*  - Python floats are IEEE 754 doubles (section Numbers): float() gives    *)
(*    the double nearest to a numeral, and a product is rounded to the       *)
(*    nearest double (0.3 * 72 is 21.599999999999998).                       *)
(*  - Python None is None where a graphic text is expected and NoText where  *)
(*    the text of an XML element is.                                         *)
(*  - A call that may raise returns a record with a field "raised".          *)
(*  - A local of the source that is used more than once is the parameter of  *)
(*    a helper operator, named after what the source does with it.           *)
(***************************************************************************)
EXTENDS Integers, Sequences, FiniteSets, TLC

(***************************************************************************)
(* Python str primitives                                                     *)
(***************************************************************************)
\* the characters U+0020 to U+005F and U+0061 to U+007E, in code order
AsciiLow  == " !\"#$%&'()*+,-./0123456789:;<=>?@ABCDEFGHIJKLMNOPQRSTUVWXYZ[\\]^_"
AsciiHigh == "abcdefghijklmnopqrstuvwxyz{|}~"

\* the index of a character in AsciiLow followed by AsciiHigh
IndexOf ==
    [c \in {SubSeq(AsciiLow, i, i) : i \in 1..Len(AsciiLow)}
             \cup {SubSeq(AsciiHigh, i, i) : i \in 1..Len(AsciiHigh)} |->
        IF \E i \in 1..Len(AsciiLow) : SubSeq(AsciiLow, i, i) = c
        THEN CHOOSE i \in 1..Len(AsciiLow) : SubSeq(AsciiLow, i, i) = c
        ELSE Len(AsciiLow) + CHOOSE i \in 1..Len(AsciiHigh) : SubSeq(AsciiHigh, i, i) = c]

\* ord() of a character of a literal
Ord(c) ==
    IF c = "\t" THEN 9
    ELSE IF c = "\n" THEN 10
    ELSE IF c = "\f" THEN 12
    ELSE IF c = "\r" THEN 13
    ELSE IF IndexOf[c] <= Len(AsciiLow) THEN 31 + IndexOf[c]
    ELSE 32 + IndexOf[c]

\* the str a literal of the source denotes
RECURSIVE Str(_)
Str(s) == IF s = "" THEN <<>> ELSE <<Ord(SubSeq(s, 1, 1))>> \o Str(Tail(s))

\* Python `sub in s`
Contains(sub, s) ==
    \E i \in 0..(Len(s) - Len(sub)) : SubSeq(s, i + 1, i + Len(sub)) = sub

\* c.lower() is the ASCII character a: a itself unless a capital, the capital
\* of a, and U+212A (the Kelvin sign) for k
LowersTo(c, a) ==
    \/ c = a /\ ~(65 <= a /\ a <= 90)
    \/ 65 <= c /\ c <= 90 /\ c + 32 = a
    \/ c = 8490 /\ a = 107

\* term occurs in s.lower() at index i of s, term of ASCII characters.
\* lower() maps character by character, but for U+0130, which becomes i
\* followed by U+0307: that i can only end an occurrence.
InLowerAt(term, s, i) ==
    \A j \in 1..Len(term) :
        \/ LowersTo(s[i + j - 1], term[j])
        \/ j = Len(term) /\ s[i + j - 1] = 304 /\ term[j] = 105

\* term in s.lower()
InLower(term, s) == \E i \in 1..(Len(s) - Len(term) + 1) : InLowerAt(term, s, i)

\* str.replace(old, '') : non-overlapping occurrences, left to right
RECURSIVE Remove(_, _)
Remove(s, old) ==
    IF Len(s) < Len(old) THEN s
    ELSE IF SubSeq(s, 1, Len(old)) = old
         THEN Remove(SubSeq(s, Len(old) + 1, Len(s)), old)
         ELSE <<Head(s)>> \o Remove(Tail(s), old)

\* whitespace to str.split(), str.isspace() and \s of re
SpaceCodes ==
    {9, 10, 11, 12, 13, 28, 29, 30, 31, 32, 133, 160, 5760, 8232, 8233, 8239, 8287, 12288}
        \cup 8192..8202
IsSpace(c) == c \in SpaceCodes

\* whitespace to float(): the separators U+001C to U+001F are not
IsFloatSpace(c) == c \in SpaceCodes /\ c \notin 28..31

\* The decimal digits (\d of re, and the digits float() reads): ten
\* consecutive code points from each of these zeros.
DigitZeros ==
    {48, 1632, 1776, 1984, 2406, 2534, 2662, 2790, 2918, 3046, 3174, 3302, 3430, 3558,
     3664, 3792, 3872, 4160, 4240, 6112, 6160, 6470, 6608, 6784, 6800, 6992, 7088, 7232,
     7248, 42528, 43216, 43264, 43472, 43504, 43600, 44016, 65296, 66720, 68912, 69734,
     69872, 69942, 70096, 70384, 70736, 70864, 71248, 71360, 71472, 71904, 72016, 72784,
     73040, 73120, 92768, 92864, 93008, 120782, 120792, 120802, 120812, 120822, 123200,
     123632, 125264, 130032}
IsDigit(c) ==
    \/ 48 <= c /\ c <= 57
    \/ c > 127 /\ \E z \in DigitZeros : z <= c /\ c <= z + 9
DigitVal(c) ==
    IF c <= 57 THEN c - 48 ELSE c - (CHOOSE z \in DigitZeros : z <= c /\ c <= z + 9)

\* the number a str of decimal digits denotes, of at most nine digits
RECURSIVE DigitsVal(_)
DigitsVal(s) ==
    IF s = <<>> THEN 0
    ELSE DigitsVal(SubSeq(s, 1, Len(s) - 1)) * 10 + DigitVal(s[Len(s)])

\* the text without its leading whitespace
RECURSIVE LStrip(_)
LStrip(s) == IF s # <<>> /\ IsSpace(Head(s)) THEN LStrip(Tail(s)) ELSE s

\* str.split() : split on runs of whitespace
RECURSIVE WordEnd(_, _)
WordEnd(s, i) == IF i <= Len(s) /\ ~IsSpace(s[i]) THEN WordEnd(s, i + 1) ELSE i - 1
RECURSIVE SplitStripped(_)
SplitStripped(t) ==
    IF t = <<>> THEN <<>>
    ELSE <<SubSeq(t, 1, WordEnd(t, 1))>>
           \o SplitStripped(LStrip(SubSeq(t, WordEnd(t, 1) + 1, Len(t))))
Split(s) == SplitStripped(LStrip(s))

\* the least element of a non-empty set of indices
Least(S) == CHOOSE i \in S : \A j \in S : i <= j

(***************************************************************************)
(* Numbers                                                                   *)
(*                                                                           *)
(* A Python float is an IEEE 754 binary64.  A finite one is the record       *)
(*   [neg |-> n, sig |-> b, exp |-> e]                                       *)
(* for the number (-1)^n * b * 2^e: b is the significand in binary, most     *)
(* significant digit first, beginning and ending with 1 and of at most 53    *)
(* digits, and e >= -1074.  36.0 is [neg |-> FALSE, sig |-> <<1, 0, 0, 1>>,  *)
(* exp |-> 2].  Zero has the significand <<>>; the int 0 and the floats 0.0  *)
(* and -0.0 are one number.  The other floats are Infinity, NegInfinity and  *)
(* NaN.                                                                      *)
(***************************************************************************)
Zero        == [neg |-> FALSE, sig |-> <<>>, exp |-> 0]
Infinity    == [special |-> "inf"]
NegInfinity == [special |-> "-inf"]
NaN         == [special |-> "nan"]

Min(a, b) == IF a < b THEN a ELSE b

\* the binary digits of a natural number, <<>> for 0
RECURSIVE BitsOf(_)
BitsOf(n) == IF n = 0 THEN <<>> ELSE BitsOf(n \div 2) \o <<n % 2>>

\* the number a sequence of binary digits denotes, of at most 30 digits
RECURSIVE BitsVal(_)
BitsVal(bits) ==
    IF bits = <<>> THEN 0
    ELSE 2 * BitsVal(SubSeq(bits, 1, Len(bits) - 1)) + bits[Len(bits)]

\* The float (-1)^neg * bits * 2^exp, bits of at most 53 digits from its
\* first 1 to its last: an infinity from 2^1024 on (the largest double is
\* (2^53 - 1) * 2^971).
Finite(neg, bits, exp) ==
    IF \A i \in 1..Len(bits) : bits[i] = 0 THEN Zero
    ELSE LET first == Least({i \in 1..Len(bits) : bits[i] = 1})
             last  == CHOOSE i \in 1..Len(bits) :
                          bits[i] = 1 /\ \A j \in (i + 1)..Len(bits) : bits[j] = 0
         IN IF Len(bits) - first + 1 + exp > 1024
            THEN IF neg THEN NegInfinity ELSE Infinity
            ELSE [neg |-> neg,
                  sig |-> SubSeq(bits, first, last),
                  exp |-> exp + Len(bits) - last]

\* the float n * 2^e of an int n
Binary(n, e) == Finite(n < 0, BitsOf(IF n < 0 THEN 0 - n ELSE n), e)

\* The float nearest to the number whose binary digits are bits, bits[j]
\* worth 2^(top - j), rounded to its first keep digits.  Round half to even:
\* up when the next digit is 1 and either more follows (a later 1, or
\* sticky: a remainder beyond bits) or the last kept digit is 1.
RoundAt(neg, bits, keep, top, sticky) ==
    LET kept == SubSeq(bits, 1, keep)
        up   == /\ bits[keep + 1] = 1
                /\ \/ sticky
                   \/ \E j \in (keep + 2)..Len(bits) : bits[j] = 1
                   \/ keep >= 1 /\ bits[keep] = 1
        zero == CHOOSE i \in 1..keep : kept[i] = 0 /\ \A j \in (i + 1)..keep : kept[j] = 1
        \* kept + 1
        incremented ==
            IF \A i \in 1..keep : kept[i] = 1 THEN <<1>> \o [i \in 1..keep |-> 0]
            ELSE [i \in 1..keep |-> IF i < zero THEN kept[i] ELSE IF i = zero THEN 1 ELSE 0]
    IN IF keep < 0 THEN Zero
       ELSE IF Len(bits) <= keep THEN Finite(neg, bits, top - Len(bits))
       ELSE IF up THEN Finite(neg, incremented, top - keep)
       ELSE Finite(neg, kept, top - keep)

(***************************************************************************)
(* Whole numbers of any size, for the arithmetic of doubles: the sequence   *)
(* of the digits in base 2^15, least significant first, the last one not 0; *)
(* <<>> is 0.                                                                *)
(***************************************************************************)
Base == 32768

\* digit i of b, 0 past its last
BigDigit(b, i) == IF i <= Len(b) THEN b[i] ELSE 0

\* a without leading zero digits
BigTrimmed(a) ==
    IF \A i \in 1..Len(a) : a[i] = 0 THEN <<>>
    ELSE SubSeq(a, 1, CHOOSE i \in 1..Len(a) :
                          a[i] # 0 /\ \A j \in (i + 1)..Len(a) : a[j] = 0)

\* a * k + c for 1 <= k <= Base and 0 <= c < Base.  Column i of the sums s
\* holds the low part of a[i] * k and the high part of a[i - 1] * k, at most
\* 2 * Base - 2; a carry comes into column i from the nearest column below
\* that overflows by itself, through columns that are full.
BigTimesPlus(a, k, c) ==
    LET s == [i \in 1..(Len(a) + 1) |->
                 (IF i <= Len(a) THEN (a[i] * k) % Base ELSE 0)
                     + (IF i = 1 THEN c ELSE (a[i - 1] * k) \div Base)]
        CarryInto(i) ==
            \E j \in 1..(i - 1) : s[j] >= Base /\ \A m \in (j + 1)..(i - 1) : s[m] = Base - 1
    IN BigTrimmed([i \in 1..(Len(a) + 1) |-> (s[i] + (IF CarryInto(i) THEN 1 ELSE 0)) % Base])
BigTimes(a, k) == BigTimesPlus(a, k, 0)

\* a < b
BigLess(a, b) ==
    \/ Len(a) < Len(b)
    \/ /\ Len(a) = Len(b)
       /\ \E i \in 1..Len(a) : a[i] < b[i] /\ \A m \in (i + 1)..Len(a) : a[m] = b[m]

\* a - b, b <= a: a borrow comes into digit i from the nearest digit below
\* where a has less than b, through digits where they are equal
BigMinus(a, b) ==
    LET BorrowInto(i) ==
            \E j \in 1..(i - 1) :
                a[j] < BigDigit(b, j) /\ \A m \in (j + 1)..(i - 1) : a[m] = BigDigit(b, m)
    IN BigTrimmed([i \in 1..Len(a) |->
           (Base + a[i] - BigDigit(b, i) - (IF BorrowInto(i) THEN 1 ELSE 0)) % Base])

\* the number of binary digits of a
BigLength(a) == IF a = <<>> THEN 0 ELSE 15 * (Len(a) - 1) + Len(BitsOf(a[Len(a)]))

\* the binary digits of a, most significant first
BitsOfBig(a) ==
    LET length == BigLength(a) IN
    [j \in 1..length |-> (a[((length - j) \div 15) + 1] \div 2^((length - j) % 15)) % 2]

\* the number a sequence of binary digits denotes
BigOfBits(bits) ==
    BigTrimmed([i \in 1..((Len(bits) + 14) \div 15) |->
        BitsVal(SubSeq(bits,
                       IF Len(bits) < 15 * i THEN 1 ELSE Len(bits) - 15 * i + 1,
                       Len(bits) - 15 * (i - 1)))])

\* the number a str of decimal digits denotes, four digits at a time
RECURSIVE BigOfDigits(_)
BigOfDigits(s) ==
    IF Len(s) <= 4 THEN IF DigitsVal(s) = 0 THEN <<>> ELSE <<DigitsVal(s)>>
    ELSE BigTimesPlus(BigOfDigits(SubSeq(s, 1, Len(s) - 4)), 10000,
                      DigitsVal(SubSeq(s, Len(s) - 3, Len(s))))

\* a * 10^n, by 10^32, 10^4 and 10
RECURSIVE BigTimesPow10(_, _)
BigTimesPow10(a, n) ==
    LET E4(b) == BigTimes(b, 10000) IN
    IF n = 0 \/ a = <<>> THEN a
    ELSE IF n >= 32 THEN BigTimesPow10(E4(E4(E4(E4(E4(E4(E4(E4(a)))))))), n - 32)
    ELSE IF n >= 4 THEN BigTimesPow10(E4(a), n - 4)
    ELSE BigTimesPow10(BigTimes(a, 10), n - 1)

\* The binary expansion of r / d for r < d, after the digits bits: the
\* digits up to limit of them, or up to the end of the expansion when that
\* comes first, and the remainder they leave.
RECURSIVE Expansion(_, _, _, _)
Expansion(r, d, bits, limit) ==
    IF Len(bits) >= limit \/ r = <<>> THEN [bits |-> bits, rest |-> r]
    ELSE LET r2 == BigTimes(r, 2) IN
         IF BigLess(r2, d) THEN Expansion(r2, d, Append(bits, 0), limit)
         ELSE Expansion(BigMinus(r2, d), d, Append(bits, 1), limit)

\* the same expansion, continued from part eight digits at a time
RECURSIVE ExpansionFrom(_, _, _)
ExpansionFrom(part, d, limit) ==
    IF Len(part.bits) >= limit \/ part.rest = <<>> THEN part
    ELSE ExpansionFrom(Expansion(part.rest, d, part.bits, Min(limit, Len(part.bits) + 8)),
                       d, limit)

\* The double nearest to n / d, n and d not 0.  n / d = (n0 / d0) * 2^top
\* with 1/4 < n0 / d0 < 1, so the first 1 of the expansion of n0 / d0 is
\* digit 1 or 2; 53 digits are kept from it on, fewer where the last would
\* be worth less than 2^-1074; one digit more decides the rounding, with the
\* remainder.
Ratio(n, d) ==
    LET top == BigLength(n) - BigLength(d) + 1
        \* a * 2^s
        Shifted(a, s) == [i \in 1..(s \div 15) |-> 0] \o BigTimes(a, 2^(s % 15))
        n0 == IF top < 0 THEN Shifted(n, 0 - top) ELSE n
        d0 == IF top > 0 THEN Shifted(d, top) ELSE d
        keep == Min((IF BigLess(BigTimes(n0, 2), d0) THEN 2 ELSE 1) + 52, top + 1074)
        expansion == ExpansionFrom([bits |-> <<>>, rest |-> n0], d0, keep + 1)
    IN IF keep < 0 THEN Zero
       ELSE RoundAt(FALSE, expansion.bits, keep, top, expansion.rest # <<>>)

\* v * k for a float v and an int k, 1 <= k <= Base: k converts to a float
\* exactly, and the product is rounded once, to 53 digits, fewer where the
\* last would be worth less than 2^-1074
Times(v, k) ==
    IF "sig" \in DOMAIN v
    THEN LET bits == BitsOfBig(BigTimes(BigOfBits(v.sig), k))
             top  == v.exp + Len(bits)
         IN RoundAt(v.neg, bits, Min(53, top + 1074), top, FALSE)
    ELSE v

\* -v
Negated(v) ==
    IF "sig" \in DOMAIN v THEN IF v = Zero THEN Zero ELSE [v EXCEPT !.neg = ~v.neg]
    ELSE IF v = Infinity THEN NegInfinity
    ELSE IF v = NegInfinity THEN Infinity
    ELSE NaN

(***************************************************************************)
(* float(str)                                                                *)
(***************************************************************************)
\* the text without the whitespace float() strips from both ends
RECURSIVE LStripFloat(_)
LStripFloat(s) == IF s # <<>> /\ IsFloatSpace(Head(s)) THEN LStripFloat(Tail(s)) ELSE s
RECURSIVE RStripFloat(_)
RStripFloat(s) ==
    IF s # <<>> /\ IsFloatSpace(s[Len(s)])
    THEN RStripFloat(SubSeq(s, 1, Len(s) - 1))
    ELSE s
Strip(s) == RStripFloat(LStripFloat(s))

\* without a leading + or -
Unsigned(s) == IF s # <<>> /\ Head(s) \in {43, 45} THEN Tail(s) ELSE s

\* float() compares inf, infinity and nan without regard to the case of the
\* ASCII letters
FoldCase(u) == [i \in 1..Len(u) |-> IF 65 <= u[i] /\ u[i] <= 90 THEN u[i] + 32 ELSE u[i]]

IsInfinityText(u) == FoldCase(u) \in {Str("inf"), Str("infinity")}
IsNaNText(u) == FoldCase(u) = Str("nan")

\* the index of the exponent marker e or E, 0 without one
ExpIndex(u) ==
    IF \E i \in 1..Len(u) : u[i] \in {101, 69}
    THEN Least({i \in 1..Len(u) : u[i] \in {101, 69}})
    ELSE 0

MantissaText(u) == IF ExpIndex(u) = 0 THEN u ELSE SubSeq(u, 1, ExpIndex(u) - 1)
ExponentText(u) == SubSeq(u, ExpIndex(u) + 1, Len(u))

\* the index of the decimal point, Len(u) + 1 without one
DotIndex(u) ==
    IF \E i \in 1..Len(u) : u[i] = 46
    THEN Least({i \in 1..Len(u) : u[i] = 46})
    ELSE Len(u) + 1

IntText(mt)  == SubSeq(mt, 1, DotIndex(mt) - 1)
FracText(mt) == SubSeq(mt, DotIndex(mt) + 1, Len(mt))

\* digits, with single underscores between digits only
DigitGroup(g) ==
    /\ g # <<>>
    /\ \A i \in 1..Len(g) : IsDigit(g[i]) \/ g[i] = 95
    /\ IsDigit(Head(g))
    /\ IsDigit(g[Len(g)])
    /\ ~Contains(<<95, 95>>, g)

OptGroup(g) == g = <<>> \/ DigitGroup(g)

\* digits, a point or both, with at least one digit
MantissaOk(mt) ==
    /\ OptGroup(IntText(mt))
    /\ OptGroup(FracText(mt))
    /\ (IntText(mt) # <<>> \/ FracText(mt) # <<>>)

\* [+-]?digits
ExponentOk(et) == DigitGroup(Unsigned(et))

NumericOk(u) ==
    /\ MantissaOk(MantissaText(u))
    /\ ExpIndex(u) # 0 => ExponentOk(ExponentText(u))

BodyOk(u) == IsInfinityText(u) \/ IsNaNText(u) \/ NumericOk(u)

\* float(s) does not raise ValueError
FloatOk(s) == BodyOk(Unsigned(Strip(s)))

\* the digits of a digit group
Digits(g) == Remove(g, <<95>>)

RECURSIVE DropZerosRight(_)
DropZerosRight(s) ==
    IF s # <<>> /\ DigitVal(s[Len(s)]) = 0
    THEN DropZerosRight(SubSeq(s, 1, Len(s) - 1))
    ELSE s
RECURSIVE DropZerosLeft(_)
DropZerosLeft(s) == IF s # <<>> /\ DigitVal(Head(s)) = 0 THEN DropZerosLeft(Tail(s)) ELSE s

\* An exponent of more than five digits is past every double: it counts as
\* 99999 (the texts of the model are shorter than that many characters).
ExponentSize(digits) == IF Len(digits) > 5 THEN 99999 ELSE DigitsVal(digits)

ExponentOf(u) ==
    LET et == ExponentText(u) IN
    IF ExpIndex(u) = 0 THEN 0
    ELSE IF et # <<>> /\ Head(et) = 45
    THEN 0 - ExponentSize(DropZerosLeft(Digits(Tail(et))))
    ELSE ExponentSize(DropZerosLeft(Digits(Unsigned(et))))

\* The double nearest to all * 10^e, all a str of decimal digits: float()
\* rounds correctly, half to even.  digits is all without the zeros at
\* either end, worth digits * 10^e10.  A whole number below 10^9 is a double
\* itself.  A number of more than 310 digits before the point is past the
\* largest double (1.7976931348623157e308), one with more than 330 zeros
\* after it is below half the least (2^-1074, about 4.94e-324).
Nearest(all, e) ==
    LET kept   == DropZerosRight(all)
        digits == DropZerosLeft(kept)
        e10    == e + Len(all) - Len(kept)
    IN IF digits = <<>> THEN Zero
       ELSE IF e10 >= 0 /\ Len(digits) + e10 <= 9 THEN Binary(DigitsVal(digits) * 10^e10, 0)
       ELSE IF Len(digits) + e10 > 310 THEN Infinity
       ELSE IF Len(digits) + e10 < 0 - 330 THEN Zero
       ELSE Ratio(BigTimesPow10(BigOfDigits(digits), IF e10 > 0 THEN e10 ELSE 0),
                  BigTimesPow10(<<1>>, IF e10 < 0 THEN 0 - e10 ELSE 0))

\* the float of an unsigned text float() accepts
BodyVal(u) ==
    IF IsInfinityText(u) THEN Infinity
    ELSE IF IsNaNText(u) THEN NaN
    ELSE LET mt   == MantissaText(u)
             frac == Digits(FracText(mt))
         IN Nearest(Digits(IntText(mt)) \o frac, ExponentOf(u) - Len(frac))

\* float(s)
FloatVal(s) ==
    LET t == Strip(s) IN
    IF t # <<>> /\ Head(t) = 45 THEN Negated(BodyVal(Tail(t))) ELSE BodyVal(Unsigned(t))

(***************************************************************************)
(* re.search over the two patterns the service uses                          *)
(***************************************************************************)
\* index of the first character at or after i that is not whitespace
RECURSIVE SkipWs(_, _)
SkipWs(s, i) == IF i <= Len(s) /\ IsSpace(s[i]) THEN SkipWs(s, i + 1) ELSE i

\* ,?
SkipComma(s, i) == IF i <= Len(s) /\ s[i] = 44 THEN i + 1 ELSE i

\* [\d.-]
IsPathNumCh(c) == IsDigit(c) \/ c \in {46, 45}
\* [\d.]
IsDimNumCh(c) == IsDigit(c) \/ c = 46

\* index of the last character of the maximal run of [\d.-] starting at i
\* (i - 1 when the run is empty)
RECURSIVE PathRunEnd(_, _)
PathRunEnd(s, i) ==
    IF i <= Len(s) /\ IsPathNumCh(s[i]) THEN PathRunEnd(s, i + 1) ELSE i - 1

\* The groups of  M\s*([\d.-]+)\s*,?\s*([\d.-]+)  when group 1 starts at p, its
\* greedy run ends at e, and q is the index after the greedy separator: the
\* greedy attempt, then the only backtracking that can succeed (group 1 gives
\* up its last character to group 2).  <<>> when there is no match.
MoveToGroups(d, p, e, q) ==
    IF e < p THEN <<>>
    ELSE IF q <= Len(d) /\ IsPathNumCh(d[q])
         THEN <<SubSeq(d, p, e), SubSeq(d, q, PathRunEnd(d, q))>>
         ELSE IF e > p THEN <<SubSeq(d, p, e - 1), <<d[e]>> >>
              ELSE <<>>

MoveToRun(d, p, e) == MoveToGroups(d, p, e, SkipWs(d, SkipComma(d, SkipWs(d, e + 1))))

MoveToFrom(d, p) == MoveToRun(d, p, PathRunEnd(d, p))

\* the match anchored at the M at index i
MoveToAt(d, i) == MoveToFrom(d, SkipWs(d, i + 1))

MoveToFirst(d, hits) == IF hits = {} THEN <<>> ELSE MoveToAt(d, Least(hits))

\* re.search(r'M\s*([\d.-]+)\s*,?\s*([\d.-]+)', d) : leftmost match
MoveToSearch(d) ==
    MoveToFirst(d, {i \in 1..Len(d) : d[i] = 77 /\ MoveToAt(d, i) # <<>>})

\* re.search(r'([\d.]+)', s) : the first maximal run of digits and dots
\* (<<>> stands for no match; a match is never empty)
RECURSIVE DimRun(_)
DimRun(s) ==
    IF s = <<>> \/ ~IsDimNumCh(Head(s)) THEN <<>> ELSE <<Head(s)>> \o DimRun(Tail(s))
RECURSIVE DimSearch(_)
DimSearch(s) ==
    IF s = <<>> THEN <<>>
    ELSE IF IsDimNumCh(Head(s)) THEN DimRun(s) ELSE DimSearch(Tail(s))

(***************************************************************************)
(* Graphic documents                                                         *)
(*                                                                           *)
(* An svg_content value is a record with a field kind:                       *)
(*   "None"      Python None                                                 *)
(*   "empty"     the empty string                                            *)
(*   "malformed" a non-empty text that ElementTree rejects                   *)
(*   "xml"       a well-formed document; elems is root.iter(): the attrib    *)
(*               dicts of the root and of its descendants, document order    *)
(***************************************************************************)
None == [kind |-> "None"]

\* dict.get(key, default)
Get(attrib, key, default) == IF key \in DOMAIN attrib THEN attrib[key] ELSE default

\* bool(svg_content)
Truthy(svg_content) == svg_content.kind \in {"malformed", "xml"}

\* ET.fromstring(svg_content)
FromString(svg_content) ==
    IF svg_content.kind = "xml"
    THEN [raised |-> FALSE, iter |-> svg_content.elems]
    ELSE [raised |-> TRUE, iter |-> <<>>]

\* the terms of line 307
connector_term == Str("connector")
pin_term == Str("pin")
pad_term == Str("pad")

\* line 307: the element id names a connector pin or pad
IsConnectorId(elem_id) ==
    /\ InLower(connector_term, elem_id)
    /\ (InLower(pin_term, elem_id) \/ InLower(pad_term, elem_id))

\* line 328
BaseId(elem_id) == Remove(Remove(elem_id, pin_term), pad_term)

\* lines 311-325: the two texts the element's position is read from, <<>>
\* when the position stays (0, 0)
PositionTexts_xyFirst(attrib) ==
    IF "x" \in DOMAIN attrib /\ "y" \in DOMAIN attrib
    THEN <<attrib["x"], attrib["y"]>>
    ELSE IF "cx" \in DOMAIN attrib /\ "cy" \in DOMAIN attrib
    THEN <<attrib["cx"], attrib["cy"]>>
    ELSE IF "x1" \in DOMAIN attrib /\ "y1" \in DOMAIN attrib
    THEN <<attrib["x1"], attrib["y1"]>>
    ELSE IF "d" \in DOMAIN attrib
    THEN MoveToSearch(attrib["d"])
    ELSE <<>>

PositionTexts(attrib) ==
    IF "cx" \in DOMAIN attrib /\ "cy" \in DOMAIN attrib
    THEN <<attrib["cx"], attrib["cy"]>>
    ELSE IF "x" \in DOMAIN attrib /\ "y" \in DOMAIN attrib
    THEN <<attrib["x"], attrib["y"]>>
    ELSE IF "x1" \in DOMAIN attrib /\ "y1" \in DOMAIN attrib
    THEN <<attrib["x1"], attrib["y1"]>>
    ELSE IF "d" \in DOMAIN attrib
    THEN MoveToSearch(attrib["d"])
    ELSE <<>>

\* x = float(...); y = float(...), or x, y = 0, 0
FloatPair(texts) ==
    IF texts = <<>> THEN [raised |-> FALSE, x |-> Zero, y |-> Zero]
    ELSE IF FloatOk(texts[1]) /\ FloatOk(texts[2])
    THEN [raised |-> FALSE, x |-> FloatVal(texts[1]), y |-> FloatVal(texts[2])]
    ELSE [raised |-> TRUE, x |-> Zero, y |-> Zero]

\* lines 308-325: the position of one candidate element
ElemPosition(attrib) == FloatPair(PositionTexts(attrib))

\* lines 328-329, for the candidates and their positions; one float() that
\* raised leaves the try block, and the handler returns []
Emitted(candidates, positions) ==
    IF \E i \in 1..Len(positions) : positions[i].raised THEN <<>>
    ELSE [i \in 1..Len(candidates) |->
            [id |-> BaseId(candidates[i].id), x |-> positions[i].x, y |-> positions[i].y]]

\* lines 305-329: the loop over root.iter()
PositionsOf(candidates) ==
    Emitted(candidates, [i \in 1..Len(candidates) |-> ElemPosition(candidates[i])])

\* lines 301-335, after ET.fromstring
PositionsIn(root) ==
    IF root.raised THEN <<>>
    ELSE PositionsOf(SelectSeq(root.iter, LAMBDA elem : IsConnectorId(Get(elem, "id", <<>>))))

\* parse_connector_positions: any exception is logged and gives []
parse_connector_positions(svg_content) == PositionsIn(FromString(svg_content))

\* 72.0, 93.6
DefaultDimensions == <<Binary(72, 0), Nearest(Str("936"), 0 - 1)>>

\* the unit of lines 362 and 364
in_unit == Str("in")

\* lines 362-365: inches to pixels at 72 DPI
ToPixels_widthUnit(value, width, attr) ==
    IF Contains(in_unit, width) THEN Times(value, 72) ELSE value

ToPixels(value, width, attr) ==
    IF Contains(in_unit, attr) THEN Times(value, 72) ELSE value

\* lines 357-367, for the two regex matches (<<>> for None)
MatchedDimensions(width, height, width_match, height_match) ==
    IF width_match # <<>> /\ height_match # <<>>
    THEN IF FloatOk(width_match) /\ FloatOk(height_match)
         THEN <<ToPixels(FloatVal(width_match), width, width),
                ToPixels(FloatVal(height_match), width, height)>>
         ELSE DefaultDimensions
    ELSE DefaultDimensions

\* lines 344-367, for viewbox.split() and the width and height strings
RootDimensions(parts, width, height) ==
    IF Len(parts) = 4
    THEN IF FloatOk(parts[3]) /\ FloatOk(parts[4])
         THEN <<FloatVal(parts[3]), FloatVal(parts[4])>>
         ELSE DefaultDimensions
    ELSE MatchedDimensions(width, height, DimSearch(width), DimSearch(height))

\* the defaults of lines 350 and 351
default_width == Str("72")
default_height == Str("93.6")

\* lines 340-373, after ET.fromstring
DimensionsIn(root) ==
    IF root.raised THEN DefaultDimensions
    ELSE RootDimensions(Split(Get(root.iter[1], "viewBox", <<>>)),
                        Get(root.iter[1], "width", default_width),
                        Get(root.iter[1], "height", default_height))

\* get_svg_dimensions: <<width, height>>
get_svg_dimensions(svg_content) == DimensionsIn(FromString(svg_content))

(***************************************************************************)
(* Asset retrieval                                                           *)
(*                                                                           *)
(* The environment of get_component_svg is a record:                         *)
(*   dirs    svg_type -> the directory <repo_path>/svg/core/<svg_type>, as   *)
(*           [exists, files]; files maps a file name to its svg_content, or  *)
(*           to [kind |-> "unreadable"] when open()/read() raises.  A type   *)
(*           that is no key has no directory.                                *)
(*   remote  [kind |-> "error"] when the request raises, otherwise           *)
(*           [kind |-> "response", status, body]                             *)
(***************************************************************************)
\* ensure_repository: whether repo_path exists afterwards.  Both existence
\* tests are on the same path; a failing os.makedirs is logged and swallowed.
ensure_repository_raises(exists, makedirs_ok) ==
    [raised |-> ~exists /\ ~makedirs_ok, exists |-> exists \/ makedirs_ok]

ensure_repository(exists, makedirs_ok) ==
    [raised |-> FALSE, exists |-> exists \/ makedirs_ok]

\* the suffixes of lines 272-274
svg_suffix == Str(".svg")
breadboard_suffix == Str("_breadboard.svg")

\* lines 271-275
possible_filenames(component_id, svg_type) ==
    << component_id \o svg_suffix,
       component_id \o <<95>> \o svg_type \o svg_suffix,
       component_id \o breadboard_suffix >>

NoDirectory == [exists |-> FALSE, files |-> <<>>]

\* line 277: svg_directory
svg_directory(env, svg_type) ==
    IF svg_type \in DOMAIN env.dirs THEN env.dirs[svg_type] ELSE NoDirectory

\* lines 283-284: the text of a local file; open() or read() raising ends in
\* the handler of line 293
ReadText(file) == IF file.kind = "unreadable" THEN None ELSE file

\* lines 289-290: the request gave a response of status 200
Answered(remote) == remote.kind = "response" /\ remote.status = 200

\* lines 287-291
FetchRemote(remote) == IF Answered(remote) THEN remote.body ELSE None

\* lines 279-291, for the candidate names that exist in svg_directory
FirstFound(dir, remote, names, found) ==
    IF dir.exists /\ found # {}
    THEN ReadText(dir.files[names[Least(found)]])
    ELSE FetchRemote(remote)

LookUpIn(dir, remote, names) ==
    FirstFound(dir, remote, names, {i \in 1..Len(names) : names[i] \in DOMAIN dir.files})

LookUp(env, svg_type, names) == LookUpIn(svg_directory(env, svg_type), env.remote, names)

\* lines 279-284: the local directory holds one of the candidate names, so
\* that the call returns (or raises) before line 287
HoldsOneOf(dir, names) ==
    dir.exists /\ \E i \in 1..Len(names) : names[i] \in DOMAIN dir.files

AnswersLocally(component_id, svg_type, env) ==
    HoldsOneOf(svg_directory(env, svg_type), possible_filenames(component_id, svg_type))

\* get_component_svg: the graphic text, or None
get_component_svg(component_id, svg_type, env) ==
    LookUp(env, svg_type, possible_filenames(component_id, svg_type))

(***************************************************************************)
(* Reconciliation                                                            *)
(***************************************************************************)
\* lines 389-392
Matches(connector, sc) ==
    \/ (connector.svgId # <<>> /\ sc.id = connector.svgId)
    \/ sc.id = connector.id
    \/ Contains(sc.id, connector.id)
    \/ Contains(connector.id, sc.id)

Hits(connector, svg_connectors) ==
    {k \in 1..Len(svg_connectors) : Matches(connector, svg_connectors[k])}

\* line 394: the loop stops at the first hit; 0 for svg_connector = None
Chosen_noBreak(hits) == IF hits = {} THEN 0 ELSE CHOOSE k \in hits : \A j \in hits : j <= k

Chosen(hits) == IF hits = {} THEN 0 ELSE Least(hits)

\* lines 387-394: the index of the coordinate bound to svg_connector
MatchIndex(connector, svg_connectors) == Chosen(Hits(connector, svg_connectors))

\* lines 396-402, for svg_connector = svg_connectors[k] (None when k = 0)
Positioned(connector, svg_connectors, k, width, height) ==
    [key \in DOMAIN connector \cup {"svgWidth", "svgHeight"} |->
        CASE key = "svgWidth"  -> width
          [] key = "svgHeight" -> height
          [] key = "x" /\ k # 0 -> svg_connectors[k].x
          [] key = "y" /\ k # 0 -> svg_connectors[k].y
          [] OTHER -> connector[key]]

\* lines 386-402: one connector of the component
UpdatedConnector(connector, svg_connectors, width, height) ==
    Positioned(connector, svg_connectors, MatchIndex(connector, svg_connectors),
               width, height)

\* lines 384-403: the loop over component.connectors
UpdatedConnectors_matchedOnly(connectors, svg_connectors, width, height) ==
    SelectSeq([i \in 1..Len(connectors) |->
                  UpdatedConnector(connectors[i], svg_connectors, width, height)],
              LAMBDA c : Hits(c, svg_connectors) # {})

UpdatedConnectors(connectors, svg_connectors, width, height) ==
    [i \in 1..Len(connectors) |->
        UpdatedConnector(connectors[i], svg_connectors, width, height)]

\* lines 406-416
WithConnectors(component, svg_connectors, dims) ==
    [component EXCEPT !.connectors =
        UpdatedConnectors(component.connectors, svg_connectors, dims[1], dims[2])]

\* lines 379-421, given what get_component_svg returned
Reconcile(component, svg_content) ==
    IF Truthy(svg_content)
    THEN WithConnectors(component, parse_connector_positions(svg_content),
                        get_svg_dimensions(svg_content))
    ELSE component

\* the svg_type of line 378
breadboard == Str("breadboard")

\* update_component_with_connector_positions
update_component_with_connector_positions(component, env) ==
    Reconcile(component, get_component_svg(component.id, breadboard, env))

(***************************************************************************)
(* Description documents                                                     *)
(*                                                                           *)
(* A file is [name, wellformed, root]; root holds what parse_fzp_file reads  *)
(* of a well-formed document: title (a key only when the element exists)     *)
(* and connectors, the <connector> elements.  A <connector> element is the   *)
(* dict of what parse_connectors reads of it: the attributes id, name and    *)
(* type, description for the text of its <description> child (a key only     *)
(* when the child exists) and svgId for the svgId of its breadboard <p>.     *)
(* The text of an element is a str, or NoText for an element without text    *)
(* (<description/>), whose .text is None.                                    *)
(***************************************************************************)
\* Python None as the .text of an element: no str holds a negative code point
NoText == <<0 - 1>>

\* os.path.basename called with the positional arguments args: it takes
\* exactly one, so any other arity is a TypeError
RECURSIVE LastComponent(_)
LastComponent(path) ==
    IF Contains(<<47>>, path) THEN LastComponent(Tail(path)) ELSE path

basename(args) ==
    IF Len(args) = 1
    THEN [raised |-> FALSE, val |-> LastComponent(args[1])]
    ELSE [raised |-> TRUE, val |-> <<>>]

\* lines 192-211: the first keyword group with a term in the file name
CategoryTerms ==
    << <<Str("Basic"),            {Str("resistor"), Str("capacitor"), Str("inductor")}>>,
       <<Str("Semiconductors"),   {Str("led"), Str("diode"), Str("transistor")}>>,
       <<Str("Microcontrollers"), {Str("arduino"), Str("raspberry"), Str("microcontroller")}>>,
       <<Str("Sensors"),          {Str("sensor"), Str("accelerometer"), Str("gyro")}>>,
       <<Str("Actuators"),        {Str("motor"), Str("servo"), Str("actuator")}>>,
       <<Str("Input"),            {Str("switch"), Str("button"), Str("potentiometer")}>>,
       <<Str("Output"),           {Str("speaker"), Str("display"), Str("lcd")}>>,
       <<Str("Connectors"),       {Str("connector"), Str("header"), Str("pin")}>>,
       <<Str("Power"),            {Str("power"), Str("battery"), Str("regulator")}>> >>

Miscellaneous == Str("Miscellaneous")

FirstCategory(hits) ==
    IF hits = {} THEN Miscellaneous ELSE CategoryTerms[Least(hits)][1]

\* lines 189-211 for the name os.path.basename gave: filename is the lower
\* case of it
CategoryOf(name) ==
    FirstCategory({i \in 1..Len(CategoryTerms) :
                      \E term \in CategoryTerms[i][2] : InLower(term, name)})

\* lines 189-211, for what os.path.basename(file_path, '.fzp') gave
CategoryFrom(filename) ==
    IF filename.raised THEN [raised |-> TRUE, val |-> <<>>]
    ELSE [raised |-> FALSE, val |-> CategoryOf(filename.val)]

fzp_suffix == Str(".fzp")

\* extract_category
extract_category(file_path) == CategoryFrom(basename(<<file_path, fzp_suffix>>))

unknown_type == Str("unknown")

\* parse_connectors.  Line 226 keeps description_elem.text as it is, None
\* included, and gives '' only when there is no <description> element.
parse_connectors(connectors_elem) ==
    [i \in 1..Len(connectors_elem) |->
        [id          |-> Get(connectors_elem[i], "id", <<>>),
         name        |-> Get(connectors_elem[i], "name", <<>>),
         description |-> Get(connectors_elem[i], "description", <<>>),
         type        |-> Get(connectors_elem[i], "type", unknown_type),
         svgId       |-> Get(connectors_elem[i], "svgId", <<>>),
         x           |-> Zero,
         y           |-> Zero]]

repo_path == Str("./backend/fritzing-parts")
base_url == Str("https://raw.githubusercontent.com/fritzing/fritzing-parts/develop")

\* the URL segments of lines 143 and 144
svg_segment == Str("/svg/")
icon_segment == Str("/icon/")
breadboard_segment == Str("/breadboard/")

\* FritzingComponent(...)
FritzingComponent(component_id, title, category, repository, connectors) ==
    [id             |-> component_id,
     title          |-> title,
     description    |-> <<>>,
     category       |-> category,
     tags           |-> <<>>,
     icon_url       |-> base_url \o svg_segment \o repository \o icon_segment
                           \o component_id \o svg_suffix,
     breadboard_url |-> base_url \o svg_segment \o repository \o breadboard_segment
                           \o component_id \o svg_suffix,
     connectors     |-> connectors,
     properties     |-> <<>>]

\* line 124
TitleOf(file, file_path) ==
    IF "title" \in DOMAIN file.root
    THEN [raised |-> FALSE, val |-> file.root["title"]]
    ELSE basename(<<file_path, fzp_suffix>>)

\* lines 119-185, for the results of lines 124, 129 and 140: the component,
\* or None once anything in the body raised
Parsed(file, repository, title, category, component_id) ==
    IF ~file.wellformed THEN None
    ELSE IF title.raised THEN None
    ELSE IF category.raised THEN None
    ELSE IF component_id.raised THEN None
    ELSE FritzingComponent(component_id.val, title.val, category.val, repository,
                           parse_connectors(Get(file.root, "connectors", <<>>)))

\* parse_fzp_file
parse_fzp_file(file, file_path, repository) ==
    Parsed(file, repository, TitleOf(file, file_path), extract_category(file_path),
           basename(<<file_path, fzp_suffix>>))

(***************************************************************************)
(* Catalog loading                                                           *)
(*                                                                           *)
(* disk[repo] is the sub-collection directory <repo_path>/<repo>:            *)
(* [exists, readable, files], files in the order os.walk yields them.        *)
(* Every operator returns, with its value, the I/O it performed (io, a       *)
(* sequence of <<operation, path or component id>>).                         *)
(***************************************************************************)
core == Str("core")
contrib == Str("contrib")
user == Str("user")
repositories == <<core, contrib, user>>

\* os.path.join(a, b), b a relative name
join(a, b) == a \o <<47>> \o b

EndsWith(s, suffix) ==
    Len(s) >= Len(suffix) /\ SubSeq(s, Len(s) - Len(suffix) + 1, Len(s)) = suffix

\* find_fzp_files: os.walk skips a directory it cannot list
find_fzp_files(dir) ==
    IF dir.readable
    THEN SelectSeq(dir.files, LAMBDA f : EndsWith(f.name, fzp_suffix))
    ELSE <<>>

\* fzp_files[:50]
ProcessCap == 50
Take(seq, n) == SubSeq(seq, 1, IF Len(seq) < n THEN Len(seq) ELSE n)

\* the concatenation of a sequence of sequences
RECURSIVE Flatten(_)
Flatten(seqs) == IF seqs = <<>> THEN <<>> ELSE Head(seqs) \o Flatten(Tail(seqs))

\* lines 89-91, for what parse_fzp_file returned: the components the file
\* adds to the catalog (none or one) and the I/O
Kept(file_path, component, env) ==
    IF component # None
    THEN [components |-> <<update_component_with_connector_positions(component, env)>>,
          io |-> <<<<"parse", file_path>>, <<"fetch", component.id>>>>]
    ELSE [components |-> <<>>, io |-> <<<<"parse", file_path>>>>]

ProcessPath(file, file_path, repo, env) ==
    Kept(file_path, parse_fzp_file(file, file_path, repo), env)

\* lines 87-93: one file of the sub-collection
ProcessFile(file, repo, env) ==
    ProcessPath(file, join(join(repo_path, repo), file.name), repo, env)

\* lines 86-93, the results of the files collected in discovery order
Collected(repo, each) ==
    [components |-> Flatten([i \in 1..Len(each) |-> each[i].components]),
     io |-> <<<<"exists", join(repo_path, repo)>>, <<"walk", join(repo_path, repo)>>>>
               \o Flatten([i \in 1..Len(each) |-> each[i].io])]

ProcessFiles(fzp_files, repo, env) ==
    Collected(repo, [i \in 1..Len(fzp_files) |-> ProcessFile(fzp_files[i], repo, env)])

\* lines 80-95: one sub-collection
LoadRepository(repo, root_exists, dir, env) ==
    IF root_exists /\ dir.exists
    THEN ProcessFiles(Take(find_fzp_files(dir), ProcessCap), repo, env)
    ELSE [components |-> <<>>, io |-> <<<<"exists", join(repo_path, repo)>>>>]

Accumulated(each) ==
    [components |-> Flatten([r \in 1..Len(each) |-> each[r].components]),
     io |-> Flatten([r \in 1..Len(each) |-> each[r].io])]

\* lines 74-95: the sub-collections in the order of the list
LoadRepositories(root_exists, dsk, env) ==
    Accumulated([r \in 1..Len(repositories) |->
                    LoadRepository(repositories[r], root_exists, dsk[repositories[r]], env)])

\* line 69: the cached catalog is served
CacheHit(is_loaded, cache) == is_loaded /\ cache # <<>>

\* lines 97-100
Published(ensured, walked) ==
    [raised |-> FALSE, returned |-> walked.components,
     cache |-> walked.components, loaded |-> TRUE,
     exists |-> ensured.exists,
     io |-> <<<<"exists", repo_path>>>> \o walked.io, populated |-> TRUE]

\* lines 72-100, for what ensure_repository did
LoadAfter(is_loaded, cache, ensured, dsk, env) ==
    IF ensured.raised
    THEN [raised |-> TRUE, returned |-> <<>>, cache |-> cache, loaded |-> is_loaded,
          exists |-> ensured.exists, io |-> <<<<"exists", repo_path>>>>,
          populated |-> FALSE]
    ELSE Published(ensured, LoadRepositories(ensured.exists, dsk, env))

\* load_components: what it returns (or that it raised), the service fields
\* and the repository directory afterwards, the I/O performed, and whether
\* lines 97-98 ran
load_components(is_loaded, cache, root_exists, mk_ok, dsk, env) ==
    IF CacheHit(is_loaded, cache)
    THEN [raised |-> FALSE, returned |-> cache, cache |-> cache, loaded |-> is_loaded,
          exists |-> root_exists, io |-> <<>>, populated |-> FALSE]
    ELSE LoadAfter(is_loaded, cache, ensure_repository(root_exists, mk_ok), dsk, env)

(***************************************************************************)
(* State                                                                     *)
(***************************************************************************)
VARIABLES
    repo_exists,       \* os.path.exists(self.repo_path)
    makedirs_ok,       \* whether os.makedirs(self.repo_path) would succeed
    disk,              \* the sub-collection directories
    assets,            \* the environment of get_component_svg
    loaded,            \* self.loaded
    components_cache,  \* self.components_cache
    pc,                \* per task: "idle", or "pending" while its call is in flight
    calls,             \* the completed load_components calls, in completion order
    svg,               \* the graphic text handed to the extraction functions
    declared,          \* the <connector> elements of the description document
    component,         \* the component handed to the reconciler
    returned,          \* the call of the pipeline that returned last: [fn, val]
    upd_pc,            \* the call of update_component_with_connector_positions:
                       \* "idle" (none in progress), "request" (suspended in
                       \* session.get), "body" (suspended in response.text())
    svg_pc             \* the direct call of get_component_svg, as upd_pc

vars == <<repo_exists, makedirs_ok, disk, assets, loaded, components_cache, pc, calls,
          svg, declared, component, returned, upd_pc, svg_pc>>

serviceVars == <<repo_exists, makedirs_ok, disk, assets, loaded, components_cache, pc, calls>>
graphicVars == <<svg, declared, component, returned, upd_pc, svg_pc>>

(***************************************************************************)
(* Bounds and inputs                                                         *)
(***************************************************************************)
NumTasks == 2
MaxCalls == 3
MaxDocs  == 2
MaxElems == 2
MaxPins  == 2

Tasks == 1..NumTasks

SeqsUpTo(S, n) == UNION {[1..k -> S] : k \in 0..n}

Opt(key, vals) == {<<>>} \cup {key :> v : v \in vals}

NothingReturned == [fn |-> "none", val |-> <<>>]

\* description documents
Titled   == [name |-> Str("resistor.fzp"), wellformed |-> TRUE,
             root |-> [title |-> Str("Resistor"),
                       connectors |-> <<[id |-> Str("connector0"), name |-> Str("a")]>>]]
Untitled == [name |-> Str("led.fzp"), wellformed |-> TRUE, root |-> [connectors |-> <<>>]]
Broken   == [name |-> Str("broken.fzp"), wellformed |-> FALSE, root |-> <<>>]
Notes    == [name |-> Str("notes.txt"), wellformed |-> FALSE, root |-> <<>>]
FileKinds == {Titled, Untitled, Broken, Notes}

Absent      == [exists |-> FALSE, readable |-> FALSE, files |-> <<>>]
Unreadable  == [exists |-> TRUE, readable |-> FALSE, files |-> <<Titled>>]
Readable(f) == [exists |-> TRUE, readable |-> TRUE, files |-> f]
\* one more document than the loop processes
Crowded     == Readable([i \in 1..(ProcessCap + 1) |-> IF i = 1 THEN Broken ELSE Titled])

CoreShapes  == {Absent, Unreadable, Crowded}
                 \cup {Readable(f) : f \in SeqsUpTo(FileKinds, MaxDocs)}
ContribShapes == {Absent, Readable(<<Titled>>)}
UserShapes    == {Absent, Readable(<<Broken, Untitled>>)}

Disk(c, o, u) == (core :> c) @@ (contrib :> o) @@ (user :> u)
EmptyDisk == Disk(Absent, Absent, Absent)

NoAssets == [dirs |-> <<>>, remote |-> [kind |-> "error"]]

\* graphic documents
Xml(root, es) == [kind |-> "xml", elems |-> <<root>> \o es]
Malformed == [kind |-> "malformed"]
Empty     == [kind |-> "empty"]

PlainRoot == [viewBox |-> Str("0 0 36 80")]

\* root attributes; the first viewBox is 0 0 36 79.2 with U+2003 and U+00A0
\* for two of the spaces and the Arabic-Indic digits U+0663 U+0666 for 36
RootAttribs ==
    {a @@ b @@ c :
        a \in Opt("viewBox", {Str("0 0") \o <<8195, 1635, 1638, 160>> \o Str("79.2"),
                              Str("0 0 1e2 nan"), Str("0 0 a b"), Str("0,0,36,79.2"), <<>>}),
        b \in Opt("width", {Str("0.3in"), <<65301>> \o Str("0"), Str("abc"), Str("1..5")}),
        c \in Opt("height", {Str("2in"), Str("30.5")})}

\* Candidate elements in every coordinate encoding, and two that are no
\* candidates.  The x1 of Connector2PAD is a 5 between U+00A0 and a tab; the d
\* of connector3pin is M 12.5, 7 L 3,4 with U+2003 and U+2028 for the first two
\* spaces and the Devanagari digit U+096D for 7; the cy of connector7pin ends
\* in U+200B; the id of the last but one is connector9P, U+0130, N.
EncodingElems ==
    { [id |-> Str("connector0pin"), cx |-> Str("1"), cy |-> Str("2"), x |-> Str("3"), y |-> Str("4")],
      [id |-> Str("connector1pin"), cx |-> Str("1"), x |-> Str("3e1"), y |-> Str("4_0"),
       x1 |-> Str("5"), y1 |-> Str("6")],
      [id |-> Str("Connector2PAD"), x1 |-> <<160, 53, 9>>, y1 |-> Str("-Inf"), d |-> Str("M 7,8")],
      [id |-> Str("connector3pin"),
       d |-> <<77, 8195>> \o Str("12.5,") \o <<8232, 2413>> \o Str(" L 3,4")],
      [id |-> Str("connector4pin"), d |-> Str("M 125 L")],
      [id |-> Str("connector5pad"), d |-> Str("m 1,2")],
      [id |-> Str("connector6pin")],
      [id |-> Str("connector7pin"), cx |-> Str("5"), cy |-> <<49, 8203>>],
      [id |-> Str("connector8pin"), d |-> Str("M10-5")],
      [id |-> Str("connector9P") \o <<304, 78>>, cx |-> Str("a"), cy |-> Str("b")],
      [cx |-> Str("9"), cy |-> Str("9")] }

\* candidate elements whose normalized identifiers collide or contain each other
IdElems ==
    { [id |-> Str("connector1pin"), cx |-> Str("1"), cy |-> Str("1")],
      [id |-> Str("connector1pad"), cx |-> Str("2"), cy |-> Str("2")],
      [id |-> Str("connector10pin"), cx |-> Str("3"), cy |-> Str("3")],
      [id |-> Str("connector10PINpin"), cx |-> Str("4"), cy |-> Str("4")] }

\* two elements with one normalized identifier, then a candidate whose
\* coordinate is no number
UnreadableElems ==
    << [id |-> Str("connector1pin"), cx |-> Str("1"), cy |-> Str("1")],
       [id |-> Str("connector1pad"), cx |-> Str("2"), cy |-> Str("2")],
       [id |-> Str("connector10pin"), cx |-> Str("3"), cy |-> Str("px")] >>

\* declared pins: the <connector> elements of a description document; the
\* second has an empty <description/>
PinDecls ==
    { [id |-> Str("connector1"), name |-> Str("a"), type |-> Str("male")],
      [id |-> Str("connector1"), name |-> Str("b"), svgId |-> Str("connector10"),
       description |-> NoText],
      [id |-> Str("connector10"), name |-> Str("d"), type |-> Str("female"),
       svgId |-> Str("connector10PIN"), description |-> Str("ten")],
      [name |-> Str("e")] }

part == Str("part")
other == Str("other")
icon == Str("icon")

ComponentOf(decls) ==
    FritzingComponent(part, Str("Part"), Miscellaneous, core, parse_connectors(decls))

\* the ways the asset environment can hold, or fail to deliver, the text g
Held(svg_type, files) ==
    [dirs |-> svg_type :> [exists |-> TRUE, files |-> files], remote |-> [kind |-> "error"]]
Local(files) == Held(breadboard, files)
Remote(status, g) ==
    [dirs |-> <<>>, remote |-> [kind |-> "response", status |-> status, body |-> g]]
Routes(g) ==
    { Local(Str("part.svg") :> g),
      Local(Str("part_breadboard.svg") :> g),
      Local((Str("part.svg") :> g) @@ (Str("part_breadboard.svg") :> Malformed)),
      Local(Str("part.svg") :> [kind |-> "unreadable"]),
      Local(Str("other.svg") :> g),
      Held(icon, (Str("part_icon.svg") :> g) @@ (Str("part_breadboard.svg") :> Empty)),
      Remote(200, g),
      Remote(404, g),
      NoAssets }

\* the arguments of a direct call of get_component_svg
ComponentIds == {part, other}
SvgTypes == {breadboard, icon}

(***************************************************************************)
(* The catalog service: tasks calling load_components                        *)
(***************************************************************************)
Init ==
    /\ repo_exists \in BOOLEAN
    /\ makedirs_ok \in (IF repo_exists THEN {TRUE} ELSE BOOLEAN)
    /\ disk \in IF repo_exists
                THEN {Disk(c, o, u) : c \in CoreShapes, o \in ContribShapes, u \in UserShapes}
                ELSE {EmptyDisk}
    /\ assets = NoAssets
    /\ loaded = FALSE
    /\ components_cache = <<>>
    /\ pc = [t \in Tasks |-> "idle"]
    /\ calls = <<>>
    /\ svg = Empty
    /\ declared = <<>>
    /\ component = None
    /\ returned = NothingReturned
    /\ upd_pc = "idle"
    /\ svg_pc = "idle"

InFlight == {t \in Tasks : pc[t] = "pending"}

\* A caller starts load_components as a task.  The tasks are interchangeable:
\* the call is given to the idle task of least index.
Schedule(t) ==
    /\ pc[t] = "idle"
    /\ \A u \in Tasks : pc[u] = "idle" => t <= u
    /\ Len(calls) + Cardinality(InFlight) < MaxCalls
    /\ pc' = [pc EXCEPT ![t] = "pending"]
    /\ UNCHANGED <<repo_exists, makedirs_ok, disk, assets, loaded, components_cache, calls>>
    /\ UNCHANGED graphicVars

\* The event loop runs the call of task t.  Nothing on the path load_components
\* takes suspends: every await it reaches is of a coroutine that runs to its
\* return, and line 90, whose call can suspend in the request of
\* get_component_svg, is not reached because parse_fzp_file returns None for
\* every file.  So the call runs from entry to return in one step.
Complete(t, r) ==
    /\ loaded' = r.loaded
    /\ components_cache' = r.cache
    /\ repo_exists' = r.exists
    /\ calls' = Append(calls, [task |-> t, concurrent |-> InFlight \ {t},
                               raised |-> r.raised, returned |-> r.returned,
                               io |-> r.io, populated |-> r.populated])

RunLoad(t) ==
    /\ pc[t] = "pending"
    /\ Complete(t, load_components(loaded, components_cache, repo_exists, makedirs_ok,
                                   disk, assets))
    /\ pc' = [pc EXCEPT ![t] = "idle"]
    /\ UNCHANGED <<makedirs_ok, disk, assets>>
    /\ UNCHANGED graphicVars

\* A direct call of ensure_repository: it has no await, so it runs from entry
\* to return in one step; it returns None.  get_component_svg and
\* update_component_with_connector_positions change the state of the service
\* through this call alone (line 269).
CallEnsureRepository ==
    /\ repo_exists' = ensure_repository(repo_exists, makedirs_ok).exists
    /\ UNCHANGED <<makedirs_ok, disk, assets, loaded, components_cache, pc, calls>>
    /\ UNCHANGED graphicVars

Next ==
    \/ \E t \in Tasks : Schedule(t) \/ RunLoad(t)
    \/ CallEnsureRepository

Spec == Init /\ [][Next]_vars

(***************************************************************************)
(* The connector position pipeline, applied to drawn inputs                  *)
(***************************************************************************)
RetrievalGraphics ==
    {Xml([width |-> Str("1in")],
         <<[id |-> Str("connector1pin"), x |-> Str("2.5"), y |-> Str("7")]>>),
     Malformed, Empty}
RetrievalPins == {[id |-> Str("connector1"), name |-> Str("a")], [id |-> Str("connector7")]}

Scenarios ==
    \* dimension extraction
    {<<Xml(r, <<>>), <<[id |-> Str("connector7")]>>, Local(Str("part.svg") :> Xml(r, <<>>))>> :
        r \in RootAttribs}
    \cup \* coordinate extraction
    {<<Xml(PlainRoot, es), <<[id |-> Str("connector1")]>>,
       Local(Str("part.svg") :> Xml(PlainRoot, es))>> :
        es \in SeqsUpTo(EncodingElems, MaxElems)}
    \cup \* matching
    {<<Xml(PlainRoot, es), ps, Local(Str("part.svg") :> Xml(PlainRoot, es))>> :
        es \in SeqsUpTo(IdElems, MaxElems), ps \in SeqsUpTo(PinDecls, MaxPins)}
    \cup \* matching, when extraction fails
    {<<Xml(PlainRoot, UnreadableElems), ps,
       Local(Str("part.svg") :> Xml(PlainRoot, UnreadableElems))>> :
        ps \in SeqsUpTo(PinDecls, MaxPins)}
    \cup \* retrieval
    UNION {{<<g, ps, a>> : a \in Routes(g)} :
        g \in RetrievalGraphics, ps \in SeqsUpTo(RetrievalPins, MaxPins)}

InitGraphic ==
    /\ \E sc \in Scenarios :
          /\ svg = sc[1]
          /\ declared = sc[2]
          /\ assets = sc[3]
    /\ component = ComponentOf(declared)
    /\ repo_exists = (DOMAIN assets.dirs # {})
    /\ makedirs_ok \in (IF repo_exists THEN {TRUE} ELSE BOOLEAN)
    /\ disk = EmptyDisk
    /\ loaded = FALSE
    /\ components_cache = <<>>
    /\ pc = [t \in Tasks |-> "idle"]
    /\ calls = <<>>
    /\ returned = NothingReturned
    /\ upd_pc = "idle"
    /\ svg_pc = "idle"

Return(fn, val) == [fn |-> fn, val |-> val]

\* parse_connector_positions has no await: entry to return in one step
CallParsePositions ==
    /\ returned' = Return("parse_connector_positions", parse_connector_positions(svg))
    /\ UNCHANGED <<svg, declared, component, upd_pc, svg_pc>>
    /\ UNCHANGED serviceVars

\* get_svg_dimensions has no await: entry to return in one step
CallGetDimensions ==
    /\ returned' = Return("get_svg_dimensions", get_svg_dimensions(svg))
    /\ UNCHANGED <<svg, declared, component, upd_pc, svg_pc>>
    /\ UNCHANGED serviceVars

\* A direct call of get_component_svg, from its entry to its first suspension.
\* It starts with ensure_repository; when a candidate file of the local
\* directory answers, nothing suspends and the call runs to its return,
\* otherwise it is suspended in session.get.  What the suspended call goes on
\* to do depends on the response alone, so its arguments are not kept.
CallGetComponentSvg(component_id, svg_type) ==
    /\ svg_pc = "idle"
    /\ repo_exists' = ensure_repository(repo_exists, makedirs_ok).exists
    /\ IF AnswersLocally(component_id, svg_type, assets)
       THEN /\ returned' = Return("get_component_svg",
                                  get_component_svg(component_id, svg_type, assets))
            /\ UNCHANGED svg_pc
       ELSE /\ svg_pc' = "request"
            /\ UNCHANGED returned
    /\ UNCHANGED <<svg, declared, component, upd_pc>>
    /\ UNCHANGED <<makedirs_ok, disk, assets, loaded, components_cache, pc, calls>>

\* Line 289 of the direct call resumes: the request raised or the response is
\* there.  With status 200 the call is suspended again in response.text();
\* otherwise it returns None.
ResumeGetComponentSvg ==
    /\ svg_pc = "request"
    /\ IF Answered(assets.remote)
       THEN /\ svg_pc' = "body"
            /\ UNCHANGED returned
       ELSE /\ returned' = Return("get_component_svg", FetchRemote(assets.remote))
            /\ svg_pc' = "idle"
    /\ UNCHANGED <<svg, declared, component, upd_pc>>
    /\ UNCHANGED serviceVars

\* Line 291 of the direct call resumes with the text of the response, which
\* the call returns.
ReturnGetComponentSvg ==
    /\ svg_pc = "body"
    /\ returned' = Return("get_component_svg", FetchRemote(assets.remote))
    /\ svg_pc' = "idle"
    /\ UNCHANGED <<svg, declared, component, upd_pc>>
    /\ UNCHANGED serviceVars

\* The call of update_component_with_connector_positions, from its entry to
\* its first suspension: that of get_component_svg(component.id, 'breadboard').
CallUpdate ==
    /\ upd_pc = "idle"
    /\ repo_exists' = ensure_repository(repo_exists, makedirs_ok).exists
    /\ IF AnswersLocally(component.id, breadboard, assets)
       THEN /\ returned' = Return("update_component_with_connector_positions",
                                  update_component_with_connector_positions(component, assets))
            /\ UNCHANGED upd_pc
       ELSE /\ upd_pc' = "request"
            /\ UNCHANGED returned
    /\ UNCHANGED <<svg, declared, component, svg_pc>>
    /\ UNCHANGED <<makedirs_ok, disk, assets, loaded, components_cache, pc, calls>>

\* Line 289 resumes: the request raised or the response is there.  With status
\* 200 the call is suspended again in response.text(); otherwise
\* get_component_svg returns None and the call runs to its return.
ReceiveResponse ==
    /\ upd_pc = "request"
    /\ IF Answered(assets.remote)
       THEN /\ upd_pc' = "body"
            /\ UNCHANGED returned
       ELSE /\ returned' = Return("update_component_with_connector_positions",
                                  Reconcile(component, FetchRemote(assets.remote)))
            /\ upd_pc' = "idle"
    /\ UNCHANGED <<svg, declared, component, svg_pc>>
    /\ UNCHANGED serviceVars

\* Line 291 resumes with the text of the response, and the call runs to its
\* return.
ReceiveBody ==
    /\ upd_pc = "body"
    /\ returned' = Return("update_component_with_connector_positions",
                          Reconcile(component, FetchRemote(assets.remote)))
    /\ upd_pc' = "idle"
    /\ UNCHANGED <<svg, declared, component, svg_pc>>
    /\ UNCHANGED serviceVars

NextGraphic ==
    \/ CallParsePositions
    \/ CallGetDimensions
    \/ CallEnsureRepository
    \/ \E component_id \in ComponentIds, svg_type \in SvgTypes :
          CallGetComponentSvg(component_id, svg_type)
    \/ ResumeGetComponentSvg
    \/ ReturnGetComponentSvg
    \/ CallUpdate
    \/ ReceiveResponse
    \/ ReceiveBody

SpecGraphic == InitGraphic /\ [][NextGraphic]_vars

(***************************************************************************)
(* Properties of the catalog service (specification Spec)                    *)
(***************************************************************************)
StartsWith(s, prefix) == Len(s) >= Len(prefix) /\ SubSeq(s, 1, Len(prefix)) = prefix

\* the number of "parse" events of call record c for sub-collection repo
ParsedIn(c, repo) ==
    Cardinality({i \in 1..Len(c.io) :
        c.io[i][1] = "parse" /\ StartsWith(c.io[i][2], join(repo_path, repo) \o <<47>>)})

\* the description documents the loop is to process in sub-collection repo
Discovered(repo) ==
    IF disk[repo].exists /\ disk[repo].readable
    THEN Take(SelectSeq(disk[repo].files, LAMBDA f : EndsWith(f.name, fzp_suffix)), ProcessCap)
    ELSE <<>>

WellFormedIn(repo) == Len(SelectSeq(Discovered(repo), LAMBDA f : f.wellformed))

\* C1: once a load has completed, the next load (nothing invalidates the
\* cache in between) returns the same catalog and performs no I/O at all.
C1_SecondLoadServedFromCache ==
    \A k \in 1..(Len(calls) - 1) :
        /\ calls[k + 1].returned = calls[k].returned
        /\ calls[k + 1].io = <<>>

\* C2: of two loads in flight at the same time at most one populates the
\* cache (walks, parses and writes components_cache), and both return the
\* same catalog.
C2_CachePopulatedAtMostOnce ==
    \A i, j \in 1..Len(calls) :
        ( /\ i < j
          /\ calls[j].task \in calls[i].concurrent
          /\ \A m \in (i + 1)..(j - 1) : calls[m].task # calls[j].task )
        => /\ ~(calls[i].populated /\ calls[j].populated)
           /\ calls[j].returned = calls[i].returned

\* C3: a load returns exactly one record for each well-formed description
\* document among those processed, and none for the malformed ones.
C3_OneRecordPerWellFormedDocument ==
    \A k \in 1..Len(calls) :
        calls[k].populated =>
            Len(calls[k].returned) =
                WellFormedIn(core) + WellFormedIn(contrib) + WellFormedIn(user)

\* C7: load_components never raises and always returns a catalog; an absent
\* sub-collection contributes no document, and every sub-collection that
\* exists is walked and has each of its discovered documents processed.
C7_LoadNeverRaises ==
    \A k \in 1..Len(calls) :
        /\ ~calls[k].raised
        /\ calls[k].populated =>
              \A r \in 1..Len(repositories) :
                 LET repo == repositories[r] IN
                 /\ (\E i \in 1..Len(calls[k].io) : calls[k].io[i] = <<"walk", join(repo_path, repo)>>)
                       <=> disk[repo].exists
                 /\ ParsedIn(calls[k], repo) = Len(Discovered(repo))

\* a load completed over a tree without core/ whose contrib/ was walked and
\* whose documents were processed
C7_Witness ==
    \E k \in 1..Len(calls) :
        /\ calls[k].populated
        /\ ~calls[k].raised
        /\ ~disk[core].exists
        /\ disk[contrib].exists
        /\ ParsedIn(calls[k], core) = 0
        /\ ParsedIn(calls[k], contrib) = 1
        /\ ParsedIn(calls[k], user) = 2

(***************************************************************************)
(* Properties of the connector position pipeline (specification SpecGraphic) *)
(***************************************************************************)
\* the call that returned last
Updated    == returned.fn = "update_component_with_connector_positions"
Positions  == returned.fn = "parse_connector_positions"
Dimensions == returned.fn = "get_svg_dimensions"

\* what the reconciler was given: the graphic text and its coordinate list
Fetched == get_component_svg(component.id, breadboard, assets)
Coords  == parse_connector_positions(Fetched)
Fallback == <<Binary(72, 0), Nearest(Str("936"), 0 - 1)>>

HasXY(pin, sc) == pin.x = sc.x /\ pin.y = sc.y

\* the highest-priority rule of section 4.3 under which coordinate sc matches
\* the pin (5: none)
Rule(pin, sc) ==
    IF pin.svgId # <<>> /\ sc.id = pin.svgId THEN 1
    ELSE IF sc.id = pin.id THEN 2
    ELSE IF Contains(sc.id, pin.id) THEN 3
    ELSE IF Contains(pin.id, sc.id) THEN 4
    ELSE 5

\* C4: each pin takes the coordinate of a candidate matching under the
\* highest-priority rule that any candidate of the list satisfies, wherever
\* the candidates stand in the list.
C4_StrictRulePriority ==
    (Updated /\ Truthy(Fetched)) =>
        LET coords == Coords IN
        \A i \in 1..Len(component.connectors) :
            LET pin  == component.connectors[i]
                best == {k \in 1..Len(coords) :
                            /\ Rule(pin, coords[k]) < 5
                            /\ \A j \in 1..Len(coords) :
                                  Rule(pin, coords[k]) <= Rule(pin, coords[j])}
            IN best # {} => \E k \in best : HasXY(returned.val.connectors[i], coords[k])

\* C5: the reconciled record has the declared pins, one for one and in the
\* declared order, each with its declared id, name, type, description (the
\* text of the <description> element, None for an empty one, '' without
\* one) and graphic hint, whatever retrieval and extraction gave.
C5_PinsPreserved ==
    Updated =>
        /\ Len(returned.val.connectors) = Len(declared)
        /\ \A i \in 1..Len(declared) :
              LET out == returned.val.connectors[i] IN
              /\ out.id = Get(declared[i], "id", <<>>)
              /\ out.name = Get(declared[i], "name", <<>>)
              /\ out.type = Get(declared[i], "type", unknown_type)
              /\ out.description = Get(declared[i], "description", <<>>)
              /\ out.svgId = Get(declared[i], "svgId", <<>>)

\* two declared pins with the same id, one of them with an empty
\* <description/>, and a graphic with coordinates: both pins are in the result
C5_Witness ==
    /\ Updated
    /\ Len(declared) = 2
    /\ Truthy(Fetched)
    /\ Len(Coords) = 2
    /\ Get(declared[1], "id", <<>>) = Get(declared[2], "id", <<>>)
    /\ declared[1] # declared[2]
    /\ Get(declared[1], "description", <<>>) = <<>>
    /\ Get(declared[2], "description", <<>>) = NoText
    /\ Len(returned.val.connectors) = 2
    /\ returned.val.connectors[2].description = NoText

\* C6: a pin that matched no coordinate has (0,0) and carries dimensions: those
\* of the graphic when one was retrieved, 72 x 93.6 when retrieval or
\* extraction failed.
C6_UnmatchedPinsCarryDimensions ==
    Updated =>
        LET coords == Coords
            dims   == IF Truthy(Fetched) THEN get_svg_dimensions(Fetched) ELSE Fallback
        IN
        \A i \in 1..Len(component.connectors) :
            LET out == returned.val.connectors[i]
            IN (~Truthy(Fetched) \/ MatchIndex(component.connectors[i], coords) = 0)
               => /\ out.x = Zero
                  /\ out.y = Zero
                  /\ "svgWidth" \in DOMAIN out
                  /\ "svgHeight" \in DOMAIN out
                  /\ out["svgWidth"] = dims[1]
                  /\ out["svgHeight"] = dims[2]

\* C10 as claimed: among elements with equal normalized identifiers and
\* different coordinates, a pin matching the identifier takes the last one.
C10_LastSeenWins ==
    (Updated /\ Truthy(Fetched)) =>
        LET coords == Coords IN
        \A i \in 1..Len(component.connectors) : \A k \in 1..Len(coords) :
            ( /\ Matches(component.connectors[i], coords[k])
              /\ \E j \in 1..Len(coords) :
                    coords[j].id = coords[k].id /\ ~HasXY(coords[j], coords[k])
              /\ \A j \in (k + 1)..Len(coords) : coords[j].id # coords[k].id )
            => HasXY(returned.val.connectors[i], coords[k])

\* the first numeric substring of a dimension attribute is a number
Measurable(attr) == DimSearch(attr) # <<>> /\ FloatOk(DimSearch(attr))

\* the attribute's number, times 72 when the attribute names inches
Measure(attr) ==
    IF Contains(in_unit, attr)
    THEN Times(FloatVal(DimSearch(attr)), 72)
    ELSE FloatVal(DimSearch(attr))

\* C8 as claimed: a viewBox of four numbers gives its 3rd and 4th; otherwise
\* the width and height attributes give the dimensions, each axis converted on
\* its own; otherwise, or when either value cannot be determined, 72 x 93.6.
C8_ClaimedDimensions ==
    (Dimensions /\ svg.kind = "xml") =>
        LET root  == svg.elems[1]
            parts == Split(Get(root, "viewBox", <<>>))
        IN returned.val =
              IF Len(parts) = 4 /\ \A n \in 1..4 : FloatOk(parts[n])
              THEN <<FloatVal(parts[3]), FloatVal(parts[4])>>
              ELSE IF /\ "width" \in DOMAIN root
                      /\ "height" \in DOMAIN root
                      /\ Measurable(root["width"])
                      /\ Measurable(root["height"])
              THEN <<Measure(root["width"]), Measure(root["height"])>>
              ELSE Fallback

\* C8 amended: a viewBox of four whitespace-separated tokens decides alone:
\* its 3rd and 4th token when both are numbers, 72 x 93.6 when not.  Without
\* such a viewBox each axis reads its own attribute, a missing width counting
\* as "72" and a missing height as "93.6": the result is the two measures
\* when both attributes hold a number, 72 x 93.6 otherwise.  A measure is the
\* attribute's number, multiplied by 72 in double arithmetic when the
\* attribute's own text names inches.
C8_Dimensions ==
    (Dimensions /\ svg.kind = "xml") =>
        LET root   == svg.elems[1]
            parts  == Split(Get(root, "viewBox", <<>>))
            width  == Get(root, "width", default_width)
            height == Get(root, "height", default_height)
        IN /\ (Len(parts) = 4 /\ FloatOk(parts[3]) /\ FloatOk(parts[4]))
                 => returned.val = <<FloatVal(parts[3]), FloatVal(parts[4])>>
           /\ (Len(parts) = 4 /\ ~(FloatOk(parts[3]) /\ FloatOk(parts[4])))
                 => returned.val = Fallback
           /\ (Len(parts) # 4 /\ Measurable(width) /\ Measurable(height))
                 => returned.val = <<Measure(width), Measure(height)>>
           /\ (Len(parts) # 4 /\ ~(Measurable(width) /\ Measurable(height)))
                 => returned.val = Fallback

\* a graphic of 0.3in by 2in without viewBox: 144 high, and as wide as the
\* double 0.3 times 72, which is 21.599999999999998 and not 21.6
C8_Witness ==
    /\ Dimensions
    /\ svg.kind = "xml"
    /\ "viewBox" \notin DOMAIN svg.elems[1]
    /\ Get(svg.elems[1], "width", <<>>) = Str("0.3in")
    /\ Get(svg.elems[1], "height", <<>>) = Str("2in")
    /\ returned.val[1] =
          [neg |-> FALSE,
           sig |-> <<1, 0, 1, 0, 1, 1, 0, 0, 1, 1, 0, 0, 1, 1, 0, 0, 1, 1,
                   0, 0, 1, 1, 0, 0, 1, 1, 0, 0, 1, 1, 0, 0, 1, 1, 0, 0,
                   1, 1, 0, 0, 1, 1, 0, 0, 1, 1, 0, 0, 1, 1, 0, 0, 1>>,
           exp |-> 0 - 48]
    /\ returned.val[1] # FloatVal(Str("21.6"))
    /\ returned.val[2] = Binary(144, 0)

\* the pin candidates of a graphic, in traversal order
CandidatesOf(graphic) == SelectSeq(graphic.elems, LAMBDA e : IsConnectorId(Get(e, "id", <<>>)))
Candidates == CandidatesOf(svg)

Has(e, a, b) == a \in DOMAIN e /\ b \in DOMAIN e

\* a maximal run of [\d.-] starting at index i, for the claimed move-to form
NumberAt(d, i) == SubSeq(d, i, PathRunEnd(d, i))

\* `M <number>,<number>` anchored at the M at index i, whitespace tolerated
\* around the comma: <<>> when the form is not there
ClaimedMoveToAt(d, i) ==
    LET p == SkipWs(d, i + 1)
        c == SkipWs(d, PathRunEnd(d, p) + 1)
        q == SkipWs(d, c + 1)
    IN IF /\ FloatOk(NumberAt(d, p))
          /\ c <= Len(d) /\ d[c] = 44
          /\ FloatOk(NumberAt(d, q))
       THEN <<NumberAt(d, p), NumberAt(d, q)>>
       ELSE <<>>

ClaimedMoveTo(d) ==
    LET hits == {i \in 1..Len(d) : d[i] = 77 /\ ClaimedMoveToAt(d, i) # <<>>} IN
    IF hits = {} THEN <<>>
    ELSE ClaimedMoveToAt(d, CHOOSE i \in hits : \A j \in hits : i <= j)

\* the pair of attribute texts the first applicable encoding designates, with
\* the move-to pair found by find; <<>> when no encoding applies
Designated(e, find(_)) ==
    IF Has(e, "cx", "cy") THEN <<e["cx"], e["cy"]>>
    ELSE IF Has(e, "x", "y") THEN <<e["x"], e["y"]>>
    ELSE IF Has(e, "x1", "y1") THEN <<e["x1"], e["y1"]>>
    ELSE IF "d" \in DOMAIN e THEN find(e["d"])
    ELSE <<>>

Readable2(pair) == pair = <<>> \/ (FloatOk(pair[1]) /\ FloatOk(pair[2]))

\* coordinate c carries the numbers of the designated pair, (0,0) without one
Carries(c, pair) ==
    IF pair = <<>> THEN c.x = Zero /\ c.y = Zero
    ELSE /\ FloatOk(pair[1]) /\ FloatOk(pair[2])
         /\ c.x = FloatVal(pair[1]) /\ c.y = FloatVal(pair[2])

\* C10 amended: with duplicate identifiers neither extraction nor
\* reconciliation raises, and every declared pin is in the result.  When the
\* designated text of every candidate is a number, each candidate yields a
\* coordinate and a pin takes the coordinate of the first element in
\* traversal order that it matches; among elements with equal identifiers
\* that is the first seen.  When the designated text of some candidate is not
\* a number, extraction yields no coordinate and every pin keeps (0,0).
C10_FirstSeenWins ==
    Updated =>
        /\ Len(returned.val.connectors) = Len(component.connectors)
        /\ Fetched.kind = "xml" =>
              LET coords == Coords
                  cands  == CandidatesOf(Fetched)
              IN
              IF \A c \in 1..Len(cands) : Readable2(Designated(cands[c], MoveToSearch))
              THEN /\ Len(coords) = Len(cands)
                   /\ \A i \in 1..Len(component.connectors) : \A k \in 1..Len(coords) :
                         ( /\ Matches(component.connectors[i], coords[k])
                           /\ \A j \in 1..(k - 1) : ~Matches(component.connectors[i], coords[j]) )
                         => HasXY(returned.val.connectors[i], coords[k])
              ELSE /\ coords = <<>>
                   /\ \A i \in 1..Len(component.connectors) :
                         /\ returned.val.connectors[i].x = Zero
                         /\ returned.val.connectors[i].y = Zero

\* two elements with the same normalized identifier and different coordinates,
\* and a pin that took the first one
C10_Witness ==
    /\ Updated
    /\ Truthy(Fetched)
    /\ LET coords == Coords IN
       \E i \in 1..Len(component.connectors) : \E k1, k2 \in 1..Len(coords) :
          /\ k1 < k2
          /\ coords[k1].id = coords[k2].id
          /\ ~HasXY(coords[k1], coords[k2])
          /\ Matches(component.connectors[i], coords[k1])
          /\ HasXY(returned.val.connectors[i], coords[k1])
          /\ ~HasXY(returned.val.connectors[i], coords[k2])

\* C9 as claimed: every candidate yields exactly one coordinate, taken from
\* the first applicable encoding (cx/cy, x/y, x1/y1, the first
\* `M <number>,<number>` of d), or (0,0), independently of the other candidates.
C9_ClaimedPositions ==
    (Positions /\ svg.kind = "xml") =>
        LET cands == Candidates IN
        /\ Len(returned.val) = Len(cands)
        /\ \A i \in 1..Len(cands) :
              i <= Len(returned.val) =>
                 Carries(returned.val[i], Designated(cands[i], ClaimedMoveTo))

\* C9 amended: the move-to pair is the first match of
\* M\s*([\d.-]+)\s*,?\s*([\d.-]+) in d (the comma is optional, and a lone run
\* of two or more number characters is split before its last character).
\* When every designated text is a number, each candidate yields exactly one
\* coordinate, in traversal order, with its normalized identifier and the
\* designated numbers, or (0,0) when no encoding applies.  When some
\* candidate's designated text is not a number, no coordinate is emitted.
C9_Positions ==
    (Positions /\ svg.kind = "xml") =>
        LET cands == Candidates
            pairs == [i \in 1..Len(cands) |-> Designated(cands[i], MoveToSearch)]
        IN IF \A i \in 1..Len(cands) : Readable2(pairs[i])
           THEN /\ Len(returned.val) = Len(cands)
                /\ \A i \in 1..Len(cands) :
                      /\ returned.val[i].id = BaseId(cands[i].id)
                      /\ Carries(returned.val[i], pairs[i])
           ELSE returned.val = <<>>

\* a candidate with circle and rectangle attributes took the circle's centre,
\* next to a candidate without any encoding, emitted at (0,0)
C9_Witness ==
    /\ Positions
    /\ svg.kind = "xml"
    /\ Len(svg.elems) = 3
    /\ Has(svg.elems[2], "cx", "cy") /\ Has(svg.elems[2], "x", "y")
    /\ DOMAIN svg.elems[3] = {"id"}
    /\ returned.val = <<[id |-> Str("connector0"), x |-> Binary(1, 0), y |-> Binary(2, 0)],
                       [id |-> Str("connector6"), x |-> Zero, y |-> Zero]>>

====
